---- MODULE Spec2Model ----
(***************************************************************************)
(* A model of rc-tic-tac-toe (src/src/main.rs): the Board (an NxM grid of  *)
(* optional pieces with place, check_win_condition, is_full and print) and *)
(* the driver loop of main that reads a row and a column per turn.         *)
(*                                                                         *)
(* Rust values are modelled as follows.                                    *)
(*   Option<T>     None is <<>>, Some(x) is <<x>>                          *)
(*   Vec<T>        a function over 0 .. len-1 (the source's indices)       *)
(*   a call        its outcome is Ok(v) when it returns v, and Panic(m)    *)
(*                 when an assert! or an index check aborts the program    *)
(*   a line read   a sequence of one-character strings                     *)
(***************************************************************************)
EXTENDS Integers, Sequences, FiniteSets, TLC

\* The largest height and the largest width of a board that is explored.
MaxSide == 3

\* The largest number of cells (height * width) of a board that is explored.
MaxCells == 9

VARIABLES
    board,       \* the Board: [height, width, pieces]
    calls,       \* the Board calls made by the last step, in order
    panicked,    \* Some(message) once a panic has aborted the program, None before
    solo,        \* args.solo
    cur_player,  \* main's cur_player
    pc,          \* where main waits: "select_row", "select_col", "done"; "api" outside main
    row,         \* main's row, Some(r) between the row read and the column read
    msg          \* the last ERROR / GAME OVER line main printed, "" when none

vars == <<board, calls, panicked, solo, cur_player, pc, row, msg>>

----------------------------------------------------------------------------
(* Values *)

Piece == {"X", "O"}

Player == {"One", "Two", "Cpu"}

None == <<>>

Some(x) == <<x>>

is_none(v) == v = <<>>

unwrap(v) == v[1]

Ok(v) == [panic |-> FALSE, val |-> v]

Panic(m) == [panic |-> TRUE, msg |-> m]

\* The panic a call's outcome leaves the program in, None when it returned.
panic_of(res) == IF res.panic THEN Some(res.msg) ELSE None

----------------------------------------------------------------------------
(* Board *)

\* new with the two loops exchanged: width rows of height cells.
new_transposed(height, width) ==
    [height |-> height,
     width  |-> width,
     pieces |-> [i \in 0 .. width - 1 |-> [j \in 0 .. height - 1 |-> None]]]

\* Board::new: height rows of width cells, every cell None.
new(height, width) ==
    [height |-> height,
     width  |-> width,
     pieces |-> [i \in 0 .. height - 1 |-> [j \in 0 .. width - 1 |-> None]]]

\* The text print writes for one cell.
print_cell(v) ==
    IF is_none(v) THEN "   |" ELSE " " \o unwrap(v) \o " |"

\* Board::print: the cell texts, row by row; the board is only read.
print(b) ==
    [i \in 0 .. b.height - 1 |-> [j \in 0 .. b.width - 1 |-> print_cell(b.pieces[i][j])]]

\* place that writes the piece into every cell of the row.
place_fills_row(b, r, c, t) ==
    IF ~(r < b.height) THEN
        [board |-> b, res |-> Panic("row selection out of range of height")]
    ELSE IF ~(c < b.width) THEN
        [board |-> b, res |-> Panic("col selection out of range of width")]
    ELSE IF ~is_none(b.pieces[r][c]) THEN
        [board |-> b, res |-> Ok(FALSE)]
    ELSE
        [board |-> [b EXCEPT !.pieces[r] = [j \in 0 .. b.width - 1 |-> Some(t)]],
         res |-> Ok(TRUE)]

\* place without its two assert!s: the index check of pieces[row][col] aborts.
place_unchecked(b, r, c, t) ==
    IF ~(r < b.height) \/ ~(c < b.width) THEN
        [board |-> b, res |-> Panic("index out of bounds")]
    ELSE IF ~is_none(b.pieces[r][c]) THEN
        [board |-> b, res |-> Ok(FALSE)]
    ELSE
        [board |-> [b EXCEPT !.pieces[r][c] = Some(t)], res |-> Ok(TRUE)]

\* place that writes the cell whether or not it is occupied.
place_overwrite(b, r, c, t) ==
    IF ~(r < b.height) THEN
        [board |-> b, res |-> Panic("row selection out of range of height")]
    ELSE IF ~(c < b.width) THEN
        [board |-> b, res |-> Panic("col selection out of range of width")]
    ELSE
        [board |-> [b EXCEPT !.pieces[r][c] = Some(t)], res |-> Ok(TRUE)]

\* place that reports success without writing the cell.
place_no_write(b, r, c, t) ==
    IF ~(r < b.height) THEN
        [board |-> b, res |-> Panic("row selection out of range of height")]
    ELSE IF ~(c < b.width) THEN
        [board |-> b, res |-> Panic("col selection out of range of width")]
    ELSE IF ~is_none(b.pieces[r][c]) THEN
        [board |-> b, res |-> Ok(FALSE)]
    ELSE
        [board |-> b, res |-> Ok(TRUE)]

\* place that, on an occupied cell, clears it and reports failure.
place_clear(b, r, c, t) ==
    IF ~(r < b.height) THEN
        [board |-> b, res |-> Panic("row selection out of range of height")]
    ELSE IF ~(c < b.width) THEN
        [board |-> b, res |-> Panic("col selection out of range of width")]
    ELSE IF ~is_none(b.pieces[r][c]) THEN
        [board |-> [b EXCEPT !.pieces[r][c] = None], res |-> Ok(FALSE)]
    ELSE
        [board |-> [b EXCEPT !.pieces[r][c] = Some(t)], res |-> Ok(TRUE)]

\* Board::place: the two assert!s, then the match on the cell.
\* The result is the board after the call and the call's outcome.
place(b, r, c, t) ==
    IF ~(r < b.height) THEN
        [board |-> b, res |-> Panic("row selection out of range of height")]
    ELSE IF ~(c < b.width) THEN
        [board |-> b, res |-> Panic("col selection out of range of width")]
    ELSE IF ~is_none(b.pieces[r][c]) THEN
        [board |-> b, res |-> Ok(FALSE)]
    ELSE
        [board |-> [b EXCEPT !.pieces[r][c] = Some(t)], res |-> Ok(TRUE)]

\* The loop of check_win_row from column c on.
RECURSIVE check_win_row_from(_, _, _, _)
check_win_row_from(b, r, p, c) ==
    IF c >= b.width THEN TRUE
    ELSE LET v == b.pieces[r][c]
         IN  IF is_none(v) \/ unwrap(v) # p THEN FALSE
             ELSE check_win_row_from(b, r, p, c + 1)

\* Board::check_win_row. Its callers pass r < height, so no index fails.
check_win_row(b, r, p) == check_win_row_from(b, r, p, 0)

\* The loop of check_win_col from row r on. pieces[r][c] aborts when c is
\* not an index of the row.
RECURSIVE check_win_col_from(_, _, _, _)
check_win_col_from(b, c, p, r) ==
    IF r >= b.height THEN Ok(TRUE)
    ELSE IF ~(c < b.width) THEN Panic("index out of bounds")
    ELSE LET v == b.pieces[r][c]
         IN  IF is_none(v) \/ unwrap(v) # p THEN Ok(FALSE)
             ELSE check_win_col_from(b, c, p, r + 1)

\* Board::check_win_col.
check_win_col(b, c, p) == check_win_col_from(b, c, p, 0)

\* The loop of check_win_diag_left from index i on.
RECURSIVE check_win_diag_left_from(_, _, _)
check_win_diag_left_from(b, p, i) ==
    IF i >= b.height THEN TRUE
    ELSE LET v == b.pieces[i][i]
         IN  IF is_none(v) \/ unwrap(v) # p THEN FALSE
             ELSE check_win_diag_left_from(b, p, i + 1)

\* Board::check_win_diag_left: the assert! on a square board, then the loop.
check_win_diag_left(b, p) ==
    IF b.height # b.width THEN Panic("diagonal calculation assumes board is square")
    ELSE Ok(check_win_diag_left_from(b, p, 0))

\* check_win_diag_right's loop reading the main diagonal's cells.
RECURSIVE check_win_diag_right_main(_, _, _)
check_win_diag_right_main(b, p, i) ==
    IF i >= b.height THEN TRUE
    ELSE LET v == b.pieces[i][i]
         IN  IF is_none(v) \/ unwrap(v) # p THEN FALSE
             ELSE check_win_diag_right_main(b, p, i + 1)

\* The loop of check_win_diag_right from index i on.
RECURSIVE check_win_diag_right_from(_, _, _)
check_win_diag_right_from(b, p, i) ==
    IF i >= b.height THEN TRUE
    ELSE LET v == b.pieces[b.height - i - 1][i]
         IN  IF is_none(v) \/ unwrap(v) # p THEN FALSE
             ELSE check_win_diag_right_from(b, p, i + 1)

\* Board::check_win_diag_right.
check_win_diag_right(b, p) ==
    IF b.height # b.width THEN Panic("diagonal calculation assumes board is square")
    ELSE Ok(check_win_diag_right_from(b, p, 0))

\* check_win_condition's row loop from row i on: TRUE when some row is full of p.
RECURSIVE check_rows_from(_, _, _)
check_rows_from(b, p, i) ==
    IF i >= b.height THEN FALSE
    ELSE IF check_win_row(b, i, p) THEN TRUE
    ELSE check_rows_from(b, p, i + 1)

\* check_win_condition's column loop from column j on; it runs j over 0 .. height-1.
RECURSIVE check_cols_from(_, _, _)
check_cols_from(b, p, j) ==
    IF j >= b.height THEN Ok(FALSE)
    ELSE LET r == check_win_col(b, j, p)
         IN  IF r.panic THEN r
             ELSE IF r.val THEN Ok(TRUE)
             ELSE check_cols_from(b, p, j + 1)

\* check_win_condition without its diagonal step.
check_diags_skipped(b, p) == Ok(FALSE)

\* check_win_condition's last step: check_win_diag_left(p) || check_win_diag_right(p).
check_diags(b, p) ==
    LET l == check_win_diag_left(b, p)
    IN  IF l.panic THEN l
        ELSE IF l.val THEN Ok(TRUE)
        ELSE check_win_diag_right(b, p)

\* Board::check_win_condition: rows, then columns, then the two diagonals.
check_win_condition(b, p) ==
    IF check_rows_from(b, p, 0) THEN Ok(TRUE)
    ELSE LET c == check_cols_from(b, p, 0)
         IN  IF c.panic THEN c
             ELSE IF c.val THEN Ok(TRUE)
             ELSE check_diags(b, p)

\* is_full's loops returning true once the first row is scanned.
RECURSIVE is_full_first_row(_, _, _)
is_full_first_row(b, i, j) ==
    IF i >= b.height \/ i >= 1 THEN TRUE
    ELSE IF j >= b.width THEN is_full_first_row(b, i + 1, 0)
    ELSE IF is_none(b.pieces[i][j]) THEN FALSE
    ELSE is_full_first_row(b, i, j + 1)

\* The loops of is_full from cell (i, j) on, row by row.
RECURSIVE is_full_from(_, _, _)
is_full_from(b, i, j) ==
    IF i >= b.height THEN TRUE
    ELSE IF j >= b.width THEN is_full_from(b, i + 1, 0)
    ELSE IF is_none(b.pieces[i][j]) THEN FALSE
    ELSE is_full_from(b, i, j + 1)

\* Board::is_full.
is_full(b) == is_full_from(b, 0, 0)

----------------------------------------------------------------------------
(* The Board used directly: any sequence of calls on a board of any explored *)
(* size. A panic aborts the program, so no call follows one.                 *)

Sides == 0 .. MaxSide

\* The coordinates offered to place: every cell of the largest board, which are
\* out of range on each smaller board.
Coords == 0 .. MaxSide - 1

Init ==
    /\ \E h \in Sides, w \in Sides :
          /\ h * w <= MaxCells
          /\ board = new(h, w)
          /\ calls = <<[op |-> "new", height |-> h, width |-> w]>>
    /\ panicked = None
    /\ solo = FALSE
    /\ cur_player = "One"
    /\ pc = "api"
    /\ row = None
    /\ msg = ""

DriverIdle == UNCHANGED <<solo, cur_player, pc, row, msg>>

Place(r, c, t) ==
    /\ pc = "api" /\ is_none(panicked)
    /\ LET out == place(board, r, c, t)
       IN  /\ board' = out.board
           /\ calls' = <<[op |-> "place", row |-> r, col |-> c, piece |-> t, res |-> out.res]>>
           /\ panicked' = panic_of(out.res)
    /\ DriverIdle

CheckWinCondition(p) ==
    /\ pc = "api" /\ is_none(panicked)
    /\ LET res == check_win_condition(board, p)
       IN  /\ calls' = <<[op |-> "check_win_condition", piece |-> p, res |-> res]>>
           /\ panicked' = panic_of(res)
    /\ UNCHANGED board
    /\ DriverIdle

IsFull ==
    /\ pc = "api" /\ is_none(panicked)
    /\ calls' = <<[op |-> "is_full", res |-> Ok(is_full(board))]>>
    /\ UNCHANGED <<board, panicked>>
    /\ DriverIdle

PrintBoard ==
    /\ pc = "api" /\ is_none(panicked)
    /\ calls' = <<[op |-> "print", out |-> print(board)]>>
    /\ UNCHANGED <<board, panicked>>
    /\ DriverIdle

Next ==
    \/ \E r \in Coords, c \in Coords, t \in Piece : Place(r, c, t)
    \/ \E p \in Piece : CheckWinCondition(p)
    \/ IsFull
    \/ PrintBoard

Spec == Init /\ [][Next]_vars

----------------------------------------------------------------------------
(* main: reading and parsing a line *)

Whitespace == {" ", "\t", "\n", "\r"}

DigitChars == <<"0", "1", "2", "3", "4", "5", "6", "7", "8", "9">>

IsDigit(ch) == \E d \in 1 .. Len(DigitChars) : DigitChars[d] = ch

DigitValue(ch) == (CHOOSE d \in 1 .. Len(DigitChars) : DigitChars[d] = ch) - 1

\* str::trim: the line without its leading and trailing whitespace.
RECURSIVE trim_start(_)
trim_start(s) ==
    IF s # <<>> /\ Head(s) \in Whitespace THEN trim_start(Tail(s)) ELSE s

RECURSIVE trim_end(_)
trim_end(s) ==
    IF s # <<>> /\ s[Len(s)] \in Whitespace THEN trim_end(SubSeq(s, 1, Len(s) - 1)) ELSE s

trim(s) == trim_end(trim_start(s))

\* The value of a string of decimal digits, most significant first.
RECURSIVE digits_value(_, _)
digits_value(s, acc) ==
    IF s = <<>> THEN acc ELSE digits_value(Tail(s), acc * 10 + DigitValue(Head(s)))

\* str::parse::<usize>: Ok(n) for an optional "+" and one or more decimal digits,
\* Err for anything else (the empty string, a sign alone, "-", a letter, a blank
\* inside). The lines explored are far shorter than the 20 digits at which a
\* usize overflows (which is an Err too).
parse(s) ==
    LET d == IF s # <<>> /\ Head(s) = "+" THEN Tail(s) ELSE s
    IN  IF d # <<>> /\ \A k \in 1 .. Len(d) : IsDigit(d[k])
        THEN [is_err |-> FALSE, val |-> digits_value(d, 0)]
        ELSE [is_err |-> TRUE]

\* The text of a one-digit number followed by the line end.
NumberLine(n) == <<DigitChars[n + 1], "\n">>

\* The lines a participant types: every index up to MaxSide (so one index is out
\* of range on every board), padded and signed numbers, a two-digit number, and
\* lines that are no number: a letter, a negative number, a blank line, two
\* numbers, and the empty string that read_line leaves at the end of input.
Lines ==
    {NumberLine(n) : n \in Sides}
    \cup {<<" ", "1", " ", "\n">>, <<"+", "0", "\r", "\n">>, <<"1", "0", "\n">>}
    \cup {<<"a", "\n">>, <<"-", "1", "\n">>, <<"\n">>, <<"1", " ", "1", "\n">>, <<"+", "\n">>, <<>>}

----------------------------------------------------------------------------
(* main: the game loop *)

\* The piece of the turn with the two branches exchanged.
piece_of_swapped(player) == IF player = "One" THEN "O" ELSE "X"

\* The piece of the turn: X for Player One, O for anyone else.
piece_of(player) == IF player = "One" THEN "X" ELSE "O"

\* The match picking Player Two after Player One in either mode.
next_player_ignores_solo(player, is_solo) ==
    CASE player = "One"            -> Ok("Two")
      [] player = "Two" /\ ~is_solo -> Ok("One")
      [] player = "Cpu" /\ is_solo  -> Ok("One")
      [] player = "Cpu" /\ ~is_solo -> Panic("two-player mode without CPU is not valid")
      [] player = "Two" /\ is_solo  -> Panic("two-player mode with CPU is not valid")

\* The match that picks the next participant; its last two arms are unreachable!.
next_player(player, is_solo) ==
    CASE player = "One" /\ is_solo  -> Ok("Cpu")
      [] player = "One" /\ ~is_solo -> Ok("Two")
      [] player = "Two" /\ ~is_solo -> Ok("One")
      [] player = "Cpu" /\ is_solo  -> Ok("One")
      [] player = "Cpu" /\ ~is_solo -> Panic("two-player mode without CPU is not valid")
      [] player = "Two" /\ is_solo  -> Panic("two-player mode with CPU is not valid")

PlaceCall(r, c, t, res) == [op |-> "place", row |-> r, col |-> c, piece |-> t, res |-> res]

WinCall(p, res) == [op |-> "check_win_condition", piece |-> p, res |-> res]

FullCall(res) == [op |-> "is_full", res |-> res]

PrintCall(b) == [op |-> "print", out |-> print(b)]

GameOverWins(player) == "GAME OVER: Player " \o player \o " wins!"

\* A usize printed with {}: its decimal digits.
RECURSIVE to_string(_)
to_string(n) ==
    IF n < 10 THEN DigitChars[n + 1] ELSE to_string(n \div 10) \o DigitChars[(n % 10) + 1]

OccupiedLine(r, c) ==
    "ERROR: space at row " \o to_string(r) \o ", col " \o to_string(c) \o " already occupied"

\* The end-of-turn check asking is_full before check_win_condition.
game_over_full_first(b, p, player, is_solo) ==
    IF is_full(b) THEN
        [calls |-> <<FullCall(Ok(TRUE)), PrintCall(b)>>,
         end |-> "stalemate", msg |-> "GAME OVER: stalemate", next |-> player, panic |-> None]
    ELSE
        LET win == check_win_condition(b, p)
            n   == next_player(player, is_solo)
        IN  IF win.panic THEN
                [calls |-> <<FullCall(Ok(FALSE)), WinCall(p, win)>>,
                 end |-> "panic", msg |-> "", next |-> player, panic |-> panic_of(win)]
            ELSE IF win.val THEN
                [calls |-> <<FullCall(Ok(FALSE)), WinCall(p, win), PrintCall(b)>>,
                 end |-> "win", msg |-> GameOverWins(player), next |-> player, panic |-> None]
            ELSE IF n.panic THEN
                [calls |-> <<FullCall(Ok(FALSE)), WinCall(p, win)>>,
                 end |-> "panic", msg |-> "", next |-> player, panic |-> panic_of(n)]
            ELSE
                [calls |-> <<FullCall(Ok(FALSE)), WinCall(p, win), PrintCall(b)>>,
                 end |-> "continue", msg |-> "", next |-> n.val, panic |-> None]

\* The end-of-turn check that never declares the game over.
game_over_plays_on(b, p, player, is_solo) ==
    LET win == check_win_condition(b, p)
        n   == next_player(player, is_solo)
    IN  IF win.panic THEN
            [calls |-> <<WinCall(p, win)>>, end |-> "panic", msg |-> "", next |-> player, panic |-> panic_of(win)]
        ELSE IF n.panic THEN
            [calls |-> <<WinCall(p, win), FullCall(Ok(is_full(b)))>>,
             end |-> "panic", msg |-> "", next |-> player, panic |-> panic_of(n)]
        ELSE
            [calls |-> <<WinCall(p, win), FullCall(Ok(is_full(b))), PrintCall(b)>>,
             end |-> "continue", msg |-> "", next |-> n.val, panic |-> None]

\* "Determine if the game is over", on the board b after p was placed by player:
\* the calls made, how the turn ends ("win", "stalemate", "continue", "panic"),
\* the line printed, and the participant of the next turn.
game_over(b, p, player, is_solo) ==
    LET win == check_win_condition(b, p)
    IN  IF win.panic THEN
            [calls |-> <<WinCall(p, win)>>, end |-> "panic", msg |-> "", next |-> player, panic |-> panic_of(win)]
        ELSE IF ~win.val THEN
            IF is_full(b) THEN
                [calls |-> <<WinCall(p, win), FullCall(Ok(TRUE)), PrintCall(b)>>,
                 end |-> "stalemate", msg |-> "GAME OVER: stalemate", next |-> player, panic |-> None]
            ELSE
                LET n == next_player(player, is_solo)
                IN  IF n.panic THEN
                        [calls |-> <<WinCall(p, win), FullCall(Ok(FALSE))>>,
                         end |-> "panic", msg |-> "", next |-> player, panic |-> panic_of(n)]
                    ELSE
                        [calls |-> <<WinCall(p, win), FullCall(Ok(FALSE)), PrintCall(b)>>,
                         end |-> "continue", msg |-> "", next |-> n.val, panic |-> None]
        ELSE
            [calls |-> <<WinCall(p, win), PrintCall(b)>>,
             end |-> "win", msg |-> GameOverWins(player), next |-> player, panic |-> None]

\* main up to the first read: the board of args.size x args.size, Player One,
\* and the first turn's print and prompt.
DriverInit ==
    /\ \E size \in Sides :
          /\ size * size <= MaxCells
          /\ board = new(size, size)
          /\ calls = <<[op |-> "new", height |-> size, width |-> size], PrintCall(new(size, size))>>
    /\ solo \in BOOLEAN
    /\ panicked = None
    /\ cur_player = "One"
    /\ pc = "select_row"
    /\ row = None
    /\ msg = ""

\* A turn that is given up and passes to the other participant all the same.
Retry_advances(m, made) ==
    /\ msg' = m
    /\ calls' = made \o <<PrintCall(board)>>
    /\ pc' = "select_row"
    /\ row' = None
    /\ cur_player' = IF cur_player # "One" THEN "One" ELSE IF solo THEN "Cpu" ELSE "Two"
    /\ UNCHANGED <<board, panicked, solo>>

\* A turn that is given up (continue): the message, and the loop's next print.
Retry(m, made) ==
    /\ msg' = m
    /\ calls' = made \o <<PrintCall(board)>>
    /\ pc' = "select_row"
    /\ row' = None
    /\ UNCHANGED <<board, panicked, solo, cur_player>>

\* The row check written row > board.height.
ReadRow_off_by_one(line) ==
    /\ pc = "select_row" /\ is_none(panicked)
    /\ LET rt == parse(trim(line))
       IN  IF rt.is_err THEN Retry("ERROR: invalid row", <<>>)
           ELSE IF rt.val > board.height THEN Retry("ERROR: row out of range", <<>>)
           ELSE /\ row' = Some(rt.val)
                /\ pc' = "select_col"
                /\ msg' = ""
                /\ calls' = <<>>
                /\ UNCHANGED <<board, panicked, solo, cur_player>>

\* The row line read without the check against board.height.
ReadRow_unchecked(line) ==
    /\ pc = "select_row" /\ is_none(panicked)
    /\ LET rt == parse(trim(line))
       IN  IF rt.is_err THEN Retry("ERROR: invalid row", <<>>)
           ELSE /\ row' = Some(rt.val)
                /\ pc' = "select_col"
                /\ msg' = ""
                /\ calls' = <<>>
                /\ UNCHANGED <<board, panicked, solo, cur_player>>

\* The row line is read: parsed and checked against board.height.
ReadRow(line) ==
    /\ pc = "select_row" /\ is_none(panicked)
    /\ LET rt == parse(trim(line))
       IN  IF rt.is_err THEN Retry("ERROR: invalid row", <<>>)
           ELSE IF rt.val >= board.height THEN Retry("ERROR: row out of range", <<>>)
           ELSE /\ row' = Some(rt.val)
                /\ pc' = "select_col"
                /\ msg' = ""
                /\ calls' = <<>>
                /\ UNCHANGED <<board, panicked, solo, cur_player>>

\* The column line is read: parsed and checked against board.width, the piece is
\* placed, and the game is over, or the turn passes, or the turn is retried.
ReadCol(line) ==
    /\ pc = "select_col" /\ is_none(panicked)
    /\ LET ct == parse(trim(line))
           p  == piece_of(cur_player)
       IN  IF ct.is_err THEN Retry("ERROR: invalid col", <<>>)
           ELSE IF ct.val >= board.width THEN Retry("ERROR: col out of range", <<>>)
           ELSE LET out  == place(board, unwrap(row), ct.val, p)
                    made == <<PlaceCall(unwrap(row), ct.val, p, out.res)>>
                IN  IF out.res.panic THEN
                        /\ panicked' = panic_of(out.res)
                        /\ calls' = made
                        /\ msg' = ""
                        /\ UNCHANGED <<board, solo, cur_player, pc, row>>
                    ELSE IF ~out.res.val THEN
                        Retry(OccupiedLine(unwrap(row), ct.val), made)
                    ELSE LET over == game_over(out.board, p, cur_player, solo)
                         IN  /\ board' = out.board
                             /\ calls' = made \o over.calls
                             /\ msg' = over.msg
                             /\ panicked' = over.panic
                             /\ cur_player' = over.next
                             /\ pc' = IF over.end = "continue" THEN "select_row"
                                      ELSE IF over.end = "panic" THEN pc
                                      ELSE "done"
                             /\ row' = IF over.end = "panic" THEN row ELSE None
                             /\ UNCHANGED solo

\* read_line returns an error (the input is not UTF-8, or the read fails):
\* expect / unwrap aborts the program.
ReadFails ==
    /\ pc \in {"select_row", "select_col"} /\ is_none(panicked)
    /\ panicked' = Some(IF pc = "select_row" THEN "failed to read row"
                        ELSE "called Result::unwrap() on an Err value")
    /\ calls' = <<>>
    /\ msg' = ""
    /\ UNCHANGED <<board, solo, cur_player, pc, row>>

DriverNext ==
    \/ \E line \in Lines : ReadRow(line)
    \/ \E line \in Lines : ReadCol(line)
    \/ ReadFails

DriverSpec == DriverInit /\ [][DriverNext]_vars

----------------------------------------------------------------------------
(* What the properties speak of, stated on the grid and not by the code's loops *)

Rows(b) == 0 .. b.height - 1

Cols(b) == 0 .. b.width - 1

Holds(b, i, j, p) == b.pieces[i][j] = Some(p)

Occupied(b, i, j) == b.pieces[i][j] # None

FullRow(b, p) == \E i \in Rows(b) : \A j \in Cols(b) : Holds(b, i, j, p)

FullCol(b, p) == \E j \in Cols(b) : \A i \in Rows(b) : Holds(b, i, j, p)

\* The main diagonal, cells (i, i), of a square board.
FullMainDiag(b, p) == \A i \in Rows(b) : Holds(b, i, i, p)

\* The anti-diagonal, cells (n-1-i, i), of a square board of side n.
FullAntiDiag(b, p) == \A i \in Rows(b) : Holds(b, b.height - 1 - i, i, p)

HasLine(b, p) == FullRow(b, p) \/ FullCol(b, p) \/ FullMainDiag(b, p) \/ FullAntiDiag(b, p)

NoEmptyCell(b) == \A i \in Rows(b), j \in Cols(b) : Occupied(b, i, j)

Square(b) == b.height = b.width /\ b.height >= 1

\* The last step made exactly one Board call, of this name.
LastCallIs(op) == Len(calls) = 1 /\ calls[1].op = op

\* The last step of main placed a piece with success.
Placed == Len(calls) >= 1 /\ calls[1].op = "place" /\ calls[1].res = Ok(TRUE)

OccupiedLines == {OccupiedLine(r, c) : r \in Sides, c \in Sides}

ErrorLines ==
    {"ERROR: invalid row", "ERROR: row out of range", "ERROR: invalid col",
     "ERROR: col out of range"} \cup OccupiedLines

\* The panics of the Board: its assert!s and the index check of its grid.
BoardPanics ==
    {Some("row selection out of range of height"),
     Some("col selection out of range of width"),
     Some("diagonal calculation assumes board is square"),
     Some("index out of bounds")}

\* The panics of the two unreachable! arms of main's match.
UnreachablePanics ==
    {Some("two-player mode without CPU is not valid"),
     Some("two-player mode with CPU is not valid")}

\* The other participant of the mode.
Opponent(player, is_solo) ==
    IF player = "One" THEN (IF is_solo THEN "Cpu" ELSE "Two") ELSE "One"

----------------------------------------------------------------------------
(* Board properties, checked under Spec *)

\* C1: on every square board of side n >= 1, in every grid reached by place
\* calls, check_win_condition(p) returns true exactly when some row, some
\* column, the main diagonal or the anti-diagonal holds p in every cell; so it
\* returns false for the other piece when only p has a line, and a line with
\* an empty cell or an opposing piece does not count.
C1_WinIffLine ==
    Square(board) =>
        /\ \A p \in Piece : check_win_condition(board, p) = Ok(HasLine(board, p))
        /\ LastCallIs("check_win_condition") =>
              calls[1].res = Ok(HasLine(board, calls[1].piece))

\* C1's case: a 3x3 board whose only line of X is the anti-diagonal, with an O
\* on the main diagonal; check_win_condition(X) has returned true, and
\* check_win_condition(O) is false.
C1_Witness ==
    /\ board.height = 3 /\ board.width = 3
    /\ LastCallIs("check_win_condition")
    /\ calls[1].piece = "X" /\ calls[1].res = Ok(TRUE)
    /\ FullAntiDiag(board, "X")
    /\ ~FullRow(board, "X") /\ ~FullCol(board, "X") /\ ~FullMainDiag(board, "X")
    /\ Holds(board, 0, 0, "O")
    /\ check_win_condition(board, "O") = Ok(FALSE)

\* C2: place(row, col, piece) on an in-range empty cell returns true, and the
\* cell then holds exactly that piece.
C2_PlaceOnEmpty ==
    [][LET c == calls'[1]
       IN  (/\ LastCallIs("place")'
            /\ c.row < board.height /\ c.col < board.width
            /\ ~Occupied(board, c.row, c.col))
           => (/\ c.res = Ok(TRUE)
               /\ board'.pieces[c.row][c.col] = Some(c.piece))]_vars

\* C2's case: place(2, 1, O) has returned true on a 3x3 board and cell (2, 1)
\* holds O.
C2_Witness ==
    /\ board.height = 3 /\ board.width = 3
    /\ LastCallIs("place")
    /\ calls[1].row = 2 /\ calls[1].col = 1 /\ calls[1].piece = "O"
    /\ calls[1].res = Ok(TRUE)
    /\ Holds(board, 2, 1, "O")

\* C3: place(row, col, piece) on an in-range cell that holds a piece, the same
\* or the other one, returns false and leaves the whole board as it was.
C3_PlaceOnOccupied ==
    [][LET c == calls'[1]
       IN  (/\ LastCallIs("place")'
            /\ c.row < board.height /\ c.col < board.width
            /\ Occupied(board, c.row, c.col))
           => (c.res = Ok(FALSE) /\ board' = board)]_vars

\* C3's case (scenario D): place(1, 1, O) has returned false on a cell that
\* holds X, and the cell still holds X.
C3_Witness ==
    /\ LastCallIs("place")
    /\ calls[1].row = 1 /\ calls[1].col = 1 /\ calls[1].piece = "O"
    /\ calls[1].res = Ok(FALSE)
    /\ Holds(board, 1, 1, "X")

\* C4: across place, check_win_condition, is_full and print, a cell that holds
\* a piece holds the same piece in the next state, hence in every later one.
C4_CellsKept ==
    [][\A i \in Rows(board), j \in Cols(board) :
          Occupied(board, i, j) => board'.pieces[i][j] = board.pieces[i][j]]_vars

\* C4's case: a place call on an occupied cell has been answered and other
\* cells are occupied too, by both pieces.
C4_Witness ==
    /\ LastCallIs("place")
    /\ calls[1].res = Ok(FALSE)
    /\ \E i \in Rows(board), j \in Cols(board) :
          /\ <<i, j>> # <<calls[1].row, calls[1].col>>
          /\ Occupied(board, i, j)
          /\ board.pieces[i][j] # board.pieces[calls[1].row][calls[1].col]

\* C5: in every grid reached by place calls, is_full() returns true exactly
\* when no cell of the grid is empty.
C5_FullIffNoEmpty ==
    /\ is_full(board) = NoEmptyCell(board)
    /\ LastCallIs("is_full") => calls[1].res = Ok(NoEmptyCell(board))

\* C5's case: is_full() has returned true on a 3x3 board with nine pieces.
C5_Witness ==
    /\ board.height = 3 /\ board.width = 3
    /\ LastCallIs("is_full")
    /\ calls[1].res = Ok(TRUE)
    /\ NoEmptyCell(board)

\* is_full() has returned false on a 3x3 board whose only empty cell is the
\* last one scanned.
C5_WitnessNotFull ==
    /\ board.height = 3 /\ board.width = 3
    /\ LastCallIs("is_full")
    /\ calls[1].res = Ok(FALSE)
    /\ \A i \in Rows(board), j \in Cols(board) : Occupied(board, i, j) <=> <<i, j>> # <<2, 2>>

----------------------------------------------------------------------------
(* Driver properties, checked under DriverSpec *)

\* C6: in main, a successful placement is followed at once by the win check of
\* the piece just placed, and is_full is asked only when that check is false.
\* A placement that completes a line ends the game with a win of the participant
\* who placed, also when it fills the last empty cell; a stalemate is reported
\* only when the placed piece has no line and the board is full; otherwise the
\* game goes on.
C6_WinBeforeFull ==
    [][Placed' =>
          LET p == calls'[1].piece
          IN  /\ p = piece_of(cur_player)
              /\ Len(calls') >= 2
              /\ calls'[2].op = "check_win_condition" /\ calls'[2].piece = p
              /\ IF HasLine(board', p) THEN
                     /\ msg' = GameOverWins(cur_player)
                     /\ pc' = "done"
                     /\ \A k \in 1 .. Len(calls') : calls'[k].op # "is_full"
                 ELSE
                     /\ Len(calls') >= 3 /\ calls'[3].op = "is_full"
                     /\ IF NoEmptyCell(board')
                        THEN msg' = "GAME OVER: stalemate" /\ pc' = "done"
                        ELSE msg' = "" /\ pc' = "select_row" /\ panicked' = None]_vars

\* C6's case: Player One's placement completed a line of X and filled the last
\* empty cell of a 3x3 board; the game is over with Player One's win.
C6_Witness ==
    /\ board.height = 3
    /\ Placed
    /\ NoEmptyCell(board)
    /\ HasLine(board, "X")
    /\ pc = "done"
    /\ msg = GameOverWins("One")

\* C7: when main ends the game with a stalemate, the board is full and neither
\* X nor O has a line: check_win_condition is false for both pieces.
C7_StalemateNoLine ==
    msg = "GAME OVER: stalemate" =>
        /\ pc = "done"
        /\ NoEmptyCell(board)
        /\ \A p \in Piece : ~HasLine(board, p) /\ check_win_condition(board, p) = Ok(FALSE)

\* C7's case: a 3x3 game that ended in a stalemate.
C7_Witness ==
    /\ board.height = 3
    /\ msg = "GAME OVER: stalemate"
    /\ pc = "done"

\* C8: a rejected turn (a row or column that does not parse, a row >= height, a
\* column >= width, a placement on an occupied cell) leaves the board and the
\* active participant as they were, and the same participant is asked for a
\* row again; a place call that returns false is such a rejected turn.
C8_RejectedTurn ==
    [][/\ msg' \in ErrorLines =>
             /\ board' = board
             /\ cur_player' = cur_player
             /\ solo' = solo
             /\ pc' = "select_row"
             /\ panicked' = None
       /\ (Len(calls') >= 1 /\ calls'[1].op = "place" /\ calls'[1].res = Ok(FALSE)) =>
             msg' = OccupiedLine(calls'[1].row, calls'[1].col)]_vars

\* C8's case: the second participant chose a cell that holds X; the turn was
\* rejected and the same participant is asked again.
C8_Witness ==
    /\ msg \in OccupiedLines
    /\ cur_player # "One"
    /\ pc = "select_row"
    /\ calls[1].op = "place" /\ calls[1].piece = "O"
    /\ Holds(board, calls[1].row, calls[1].col, "X")

\* C9: after a successful placement that does not end the game the turn passes
\* to the other participant of the mode (One <-> Two in two-player mode,
\* One <-> Cpu in solo mode); (Cpu, two-player) and (Two, solo) are never
\* reached, so no unreachable! arm runs.
C9_Alternation ==
    [][/\ ~(cur_player' = "Cpu" /\ ~solo')
       /\ ~(cur_player' = "Two" /\ solo')
       /\ panicked' \notin UnreachablePanics
       /\ (Placed' /\ pc' = "select_row") => cur_player' = Opponent(cur_player, solo)
       /\ (Placed' /\ pc' = "select_row") => Opponent(cur_player', solo') = cur_player]_vars

\* C9's case: in solo mode the turn has passed from Player One to Cpu and back.
C9_Witness ==
    /\ solo
    /\ Placed
    /\ calls[1].piece = "O"
    /\ cur_player = "One"
    /\ pc = "select_row"

\* C10: in every run of main, for every board size and every input, no fatal
\* precondition of the Board fails: place is called only with row < height and
\* col < width, and the diagonal checks run only on a board with
\* height = width.
C10_NoFatalPrecondition ==
    /\ panicked \notin BoardPanics
    /\ row # None => unwrap(row) < board.height
    /\ \A k \in 1 .. Len(calls) :
          /\ calls[k].op = "place" =>
                /\ calls[k].row < board.height
                /\ calls[k].col < board.width
                /\ ~calls[k].res.panic
          /\ calls[k].op = "check_win_condition" =>
                /\ board.height = board.width
                /\ ~calls[k].res.panic

\* C10's case: on a 3x3 board a piece was placed in the last row and column and
\* check_win_condition went through the rows, the columns and both diagonals
\* to return false.
C10_Witness ==
    /\ board.height = 3
    /\ Placed
    /\ calls[1].row = 2 /\ calls[1].col = 2
    /\ calls[2].op = "check_win_condition"
    /\ calls[2].res = Ok(FALSE)

----------------------------------------------------------------------------
(* Boards that are not square or have no cells, checked under Spec *)

\* C11: on every board with height # width, both at least 1,
\* check_win_condition(p) returns true whenever some row or some column, of
\* any index below height and below width, holds p in every cell.
C11_RowColAnyRectangle ==
    (board.height # board.width /\ board.height >= 1 /\ board.width >= 1) =>
        \A p \in Piece :
            (FullRow(board, p) \/ FullCol(board, p)) =>
                check_win_condition(board, p) = Ok(TRUE)

\* C12: a board of height 0 or of width 0 is full and cannot be won: is_full()
\* returns true and check_win_condition(p) returns false for both pieces.
C12_DegenerateUnwinnable ==
    (board.height = 0 \/ board.width = 0) =>
        /\ is_full(board) = TRUE
        /\ \A p \in Piece : check_win_condition(board, p) = Ok(FALSE)

\* No cell of the board holds a piece.
AllEmpty(b) == \A i \in Rows(b), j \in Cols(b) : ~Occupied(b, i, j)

\* The grid has exactly b.height rows of b.width cells.
WellShaped(b) ==
    /\ DOMAIN b.pieces = Rows(b)
    /\ \A i \in Rows(b) : DOMAIN b.pieces[i] = Cols(b)

\* C13: for positive h and w, Board::new(h, w) is a grid of exactly h rows of w
\* cells, every cell empty, and is_full() on it returns false.
C13_NewBoardEmpty ==
    /\ (LastCallIs("new") /\ calls[1].height >= 1 /\ calls[1].width >= 1) =>
          /\ board.height = calls[1].height
          /\ board.width = calls[1].width
          /\ WellShaped(board)
          /\ AllEmpty(board)
          /\ is_full(board) = FALSE
    /\ (LastCallIs("is_full") /\ board.height >= 1 /\ board.width >= 1 /\ AllEmpty(board)) =>
          calls[1].res = Ok(FALSE)

\* C13's case: is_full() has returned false on the board of Board::new(2, 3).
C13_Witness ==
    /\ board.height = 2 /\ board.width = 3
    /\ WellShaped(board)
    /\ AllEmpty(board)
    /\ LastCallIs("is_full")
    /\ calls[1].res = Ok(FALSE)

\* C14: a successful place(row, col, piece) changes the cell at (row, col) and
\* nothing else of the board: the other cells, the height, the width and the
\* shape of the grid stay; check_win_condition and is_full change nothing of it.
C14_FrameOfPlace ==
    [][LET c == calls'[1]
       IN  /\ (LastCallIs("place")' /\ c.res = Ok(TRUE)) =>
                  /\ board'.height = board.height
                  /\ board'.width = board.width
                  /\ WellShaped(board')
                  /\ \A i \in Rows(board), j \in Cols(board) :
                        <<i, j>> # <<c.row, c.col>> => board'.pieces[i][j] = board.pieces[i][j]
           /\ (LastCallIs("check_win_condition")' \/ LastCallIs("is_full")') =>
                  board' = board]_vars

\* C14's case: place(0, 2, X) has succeeded on a 2x3 board whose row 0 held an
\* O and an empty cell before, and still does.
C14_Witness ==
    /\ board.height = 2 /\ board.width = 3
    /\ LastCallIs("place")
    /\ calls[1].row = 0 /\ calls[1].col = 2 /\ calls[1].piece = "X"
    /\ calls[1].res = Ok(TRUE)
    /\ Holds(board, 0, 0, "O")
    /\ ~Occupied(board, 0, 1)

\* C15: place(row, col, piece) with row >= height or col >= width does not
\* return: one of its two assert!s aborts, the row's first, before the grid is
\* indexed, and the board is as it was.
C15_PlaceOutOfRange ==
    [][LET c == calls'[1]
       IN  (LastCallIs("place")' /\ (c.row >= board.height \/ c.col >= board.width)) =>
               /\ c.res = IF c.row >= board.height
                          THEN Panic("row selection out of range of height")
                          ELSE Panic("col selection out of range of width")
               /\ panicked' = Some(c.res.msg)
               /\ board' = board]_vars

\* C15's case: place(1, 2, O) on a 3x2 board that holds a piece aborted on the
\* column assert!.
C15_Witness ==
    /\ board.height = 3 /\ board.width = 2
    /\ LastCallIs("place")
    /\ calls[1].row = 1 /\ calls[1].col = 2 /\ calls[1].piece = "O"
    /\ calls[1].res = Panic("col selection out of range of width")
    /\ panicked # None
    /\ Occupied(board, 1, 1)

----------------------------------------------------------------------------
(* More driver properties, checked under DriverSpec *)

\* The piece has a winning line, as check_win_condition tells.
Won(p) == check_win_condition(board, p) = Ok(TRUE)

\* A turn is about to be played: main waits for a row or a column.
TurnPending == pc \in {"select_row", "select_col"}

\* The number of cells that hold p.
Count(b, p) == Cardinality({ij \in Rows(b) \X Cols(b) : Holds(b, ij[1], ij[2], p)})

\* C16: in every state of main, X and O do not both have a winning line; at
\* the start of every turn neither piece has one, and the board (of size >= 1)
\* is not full.
C16_NoDoubleWin ==
    /\ ~(Won("X") /\ Won("O"))
    /\ TurnPending => (~Won("X") /\ ~Won("O"))
    /\ (TurnPending /\ board.height >= 1) => ~NoEmptyCell(board)

\* The statement of C16 on the boards of size >= 1, where it holds, with the
\* line stated on the grid as well.
C16_FromSizeOne ==
    board.height >= 1 =>
        /\ ~(Won("X") /\ Won("O"))
        /\ ~(HasLine(board, "X") /\ HasLine(board, "O"))
        /\ TurnPending =>
              /\ \A p \in Piece : ~Won(p) /\ ~HasLine(board, p)
              /\ ~NoEmptyCell(board)

\* X cells minus O cells.
Lead(b) == Count(b, "X") - Count(b, "O")

\* The lead fits the participant whose turn it is.
LeadFitsTurn ==
    /\ Lead(board) \in {0, 1}
    /\ TurnPending => Lead(board) = (IF cur_player = "One" THEN 0 ELSE 1)

\* C17: in both modes Player One places X and the other participant places O,
\* and the number of X cells minus the number of O cells is 0 when it is
\* Player One's turn and 1 when it is the other participant's turn.
C17_PiecesAndTurns ==
    [][/\ LeadFitsTurn
       /\ LeadFitsTurn'
       /\ Placed' => calls'[1].piece = (IF cur_player = "One" THEN "X" ELSE "O")]_vars

\* C17's case: in solo mode, with three X and three O on a 3x3 board, Cpu has
\* just placed an O and it is Player One's turn.
C17_Witness ==
    /\ solo
    /\ board.height = 3
    /\ Count(board, "X") = 3 /\ Count(board, "O") = 3
    /\ Placed /\ calls[1].piece = "O"
    /\ cur_player = "One"
    /\ pc = "select_row"

----------------------------------------------------------------------------
(* Termination of the game, checked under FairDriverSpec *)

\* The number of cells that hold a piece.
Pieces(b) == Count(b, "X") + Count(b, "O")

\* A participant selects a row that has an empty cell: the step of ReadRow that
\* takes an in-range row i with an empty cell.
GoodRow ==
    /\ pc = "select_row" /\ is_none(panicked)
    /\ \E i \in Rows(board) :
          /\ \E j \in Cols(board) : ~Occupied(board, i, j)
          /\ row' = Some(i)

\* A participant selects the column of an empty cell of the row selected: the
\* step of ReadCol that places the piece of the turn.
GoodCol ==
    /\ pc = "select_col" /\ is_none(panicked)
    /\ \E j \in Cols(board) :
          /\ ~Occupied(board, unwrap(row), j)
          /\ board' = place(board, unwrap(row), j, piece_of(cur_player)).board

\* A participant types a line at the prompt.
TypesLine == \E line \in Lines : ReadRow(line) \/ ReadCol(line)

\* main with participants who answer every prompt and who, asked again and
\* again, eventually select an empty in-range cell.
FairDriverSpec ==
    DriverSpec /\ WF_vars(TypesLine) /\ SF_row(GoodRow) /\ SF_board(GoodCol)

\* The two panics of a failed read_line.
ReadPanics ==
    {Some("failed to read row"), Some("called Result::unwrap() on an Err value")}

\* The game is over, or the program was aborted by a failed read.
Ended == pc = "done" \/ panicked \in ReadPanics

\* C18: on a board of size n >= 1 every successful placement fills one more
\* cell and nothing else changes the board, and the game is over as soon as
\* n*n cells are filled, so after at most n*n successful placements; with
\* participants who keep selecting an empty in-range cell the game ends.
C18_GameEnds ==
    /\ [][/\ Placed' => (pc # "done" /\ Pieces(board') = Pieces(board) + 1)
          /\ ~Placed' => board' = board
          /\ (board'.height >= 1 /\ Pieces(board') = board'.height * board'.height) =>
                pc' = "done"]_vars
    /\ (board.height >= 1) => <>Ended

\* C18's case: a 3x3 game that went on to the ninth placement and ended.
C18_Witness ==
    /\ board.height = 3
    /\ Pieces(board) = 9
    /\ Placed
    /\ pc = "done"

----------------------------------------------------------------------------
(* The program started with --size 0, checked under DriverSpec *)

\* The two lines that announce the end of a game.
GameOverLines == {"GAME OVER: stalemate"} \cup {GameOverWins(player) : player \in Player}

\* What every step of a size-0 game does whatever the row line says: it is
\* taken at Player One's row prompt and leads back to it, the board is kept,
\* the only call made is the loop's print, no game-over line is printed, and
\* nothing aborts the program but a failed read.
SizeZeroStep ==
    /\ pc = "select_row" /\ cur_player = "One"
    /\ pc' = "select_row" /\ cur_player' = "One"
    /\ row' = None
    /\ board' = board
    /\ \A c \in 1 .. Len(calls') : calls'[c].op = "print"
    /\ msg' \notin GameOverLines
    /\ panicked' \in {None, Some("failed to read row")}

\* C19 as stated: started with size 0, every row line is rejected as out of
\* range, place is never called, no win or stalemate is reached, and Player
\* One is asked for a row again.
C19_AllRowsOutOfRange ==
    [][board.height = 0 =>
          /\ SizeZeroStep
          /\ \A line \in Lines : ReadRow(line) => msg' = "ERROR: row out of range"]_vars

\* C19, amended: started with size 0, every row line is rejected, as out of
\* range when it parses as a number and as invalid when it does not, place is
\* never called, no win or stalemate is reached, and Player One is asked for a
\* row again for as long as the input can be read.
C19_SizeZeroReprompts ==
    [][board.height = 0 =>
          /\ SizeZeroStep
          /\ \A line \in Lines : ReadRow(line) =>
                /\ panicked' = None
                /\ msg' = IF parse(trim(line)).is_err THEN "ERROR: invalid row"
                          ELSE "ERROR: row out of range"]_vars

\* C19's case: a size-0 game in which a row line that is no number was rejected
\* and Player One is asked again.
C19_Witness ==
    /\ board.height = 0
    /\ msg = "ERROR: invalid row"
    /\ calls = <<PrintCall(board)>>
    /\ pc = "select_row"
    /\ cur_player = "One"
    /\ panicked = None

\* A size-0 game in which a row number was rejected as out of range.
C19_WitnessOutOfRange ==
    /\ board.height = 0
    /\ msg = "ERROR: row out of range"
    /\ pc = "select_row"
    /\ cur_player = "One"

====
